---- MODULE Spec2Model ----
(***************************************************************************)
(* Correlation & Regression Visualizer (mattrocklage/regression).          *)
(*                                                                         *)
(* The React component CorrelationAndRegressionVisualizer and the numeric  *)
(* helpers it calls (randn outcomes, generateCorrelatedData,               *)
(* computeCorrelation, computeRegressionLine), for the four variants of    *)
(* the component kept in the repository (App.jsx, App_old.jsx and the two  *)
(* unnamed variants part_000 and part_001).                                *)
(*                                                                         *)
(* JavaScript numbers are modelled as exact rationals [num, den] in lowest *)
(* terms with den > 0; den = 0 encodes the non-finite values: 1/0 is       *)
(* +Infinity, -1/0 is -Infinity and 0/0 is NaN.  Sums that the code        *)
(* accumulates left to right are summed pairwise (same value in exact      *)
(* arithmetic) so that a 200-point sample can be evaluated.                *)
(***************************************************************************)
EXTENDS Integers, Sequences, FiniteSets, TLC

(* JavaScript number arithmetic                                            *)

Abs(i) == IF i < 0 THEN -i ELSE i

Sign(i) == IF i < 0 THEN -1 ELSE IF i > 0 THEN 1 ELSE 0

RECURSIVE GCD(_, _)
GCD(a, b) == IF b = 0 THEN a ELSE GCD(b, a % b)

Rat(n, d) ==
  IF d = 0 THEN [num |-> Sign(n), den |-> 0]
  ELSE IF d = 1 THEN [num |-> n, den |-> 1]
  ELSE LET g == GCD(Abs(n), Abs(d))
       IN [num |-> (Sign(d) * n) \div g, den |-> Abs(d) \div g]

Num(i) == [num |-> i, den |-> 1]

NaN == [num |-> 0, den |-> 0]

Infinity == [num |-> 1, den |-> 0]

NegInfinity == [num |-> -1, den |-> 0]

IsNaN(a) == a.den = 0 /\ a.num = 0

IsFinite(a) == a.den # 0

IsZero(a) == a.den # 0 /\ a.num = 0

Neg(a) == [num |-> -a.num, den |-> a.den]

\* a + b
Add(a, b) ==
  IF IsNaN(a) \/ IsNaN(b) THEN NaN
  ELSE IF a.den = 0 /\ b.den = 0 THEN (IF a.num = b.num THEN a ELSE NaN)
  ELSE IF a.den = 0 THEN a
  ELSE IF b.den = 0 THEN b
  ELSE IF a.den = b.den THEN Rat(a.num + b.num, a.den)
  ELSE LET g == GCD(a.den, b.den)
       IN Rat(a.num * (b.den \div g) + b.num * (a.den \div g),
              (a.den \div g) * b.den)

\* a - b
Sub(a, b) == Add(a, Neg(b))

\* a * b
Mul(a, b) ==
  IF IsNaN(a) \/ IsNaN(b) THEN NaN
  ELSE IF a.den = 0 \/ b.den = 0
       THEN (IF a.num = 0 \/ b.num = 0 THEN NaN
             ELSE [num |-> Sign(a.num) * Sign(b.num), den |-> 0])
  ELSE IF a.den = 1 /\ b.den = 1 THEN [num |-> a.num * b.num, den |-> 1]
  ELSE LET g1 == GCD(Abs(a.num), b.den)
           g2 == GCD(Abs(b.num), a.den)
       IN [num |-> (a.num \div g1) * (b.num \div g2),
           den |-> (a.den \div g2) * (b.den \div g1)]

\* a / b
Div(a, b) ==
  IF IsNaN(a) \/ IsNaN(b) THEN NaN
  ELSE IF b.den = 0 THEN (IF a.den = 0 THEN NaN ELSE Num(0))
  ELSE IF b.num = 0 THEN [num |-> Sign(a.num), den |-> 0]
  ELSE IF a.den = 0 THEN [num |-> a.num * Sign(b.num), den |-> 0]
  ELSE Mul(a, [num |-> Sign(b.num) * b.den, den |-> Abs(b.num)])

\* a < b (false when either side is NaN)
Lt(a, b) ==
  IF IsNaN(a) \/ IsNaN(b) THEN FALSE
  ELSE IF a.den = 0 THEN a.num < 0 /\ b # a
  ELSE IF b.den = 0 THEN b.num > 0
  ELSE Sub(a, b).num < 0

\* a <= b
Le(a, b) == Lt(a, b) \/ (~IsNaN(a) /\ a = b)

\* ToBoolean(a): 0 and NaN are falsy
Truthy(a) == ~(IsNaN(a) \/ IsZero(a))

\* a || b
OrElse(a, b) == IF Truthy(a) THEN a ELSE b

RECURSIVE ISqrtBetween(_, _, _)
ISqrtBetween(m, lo, hi) ==
  IF lo >= hi THEN lo
  ELSE LET mid == (lo + hi + 1) \div 2
       IN IF mid * mid <= m THEN ISqrtBetween(m, mid, hi)
          ELSE ISqrtBetween(m, lo, mid - 1)

\* floor(sqrt(m)) for 0 <= m < 2^31
ISqrt(m) == ISqrtBetween(m, 0, IF m < 46340 THEN m ELSE 46340)

IsSquare(m) == ISqrt(m) * ISqrt(m) = m

\* Math.sqrt: NaN below zero; exact on squares of rationals; elsewhere the
\* result is rounded (down, to sixteenths below 2^22 and to integers above)
\* and stays positive, as the rounded square root of a double does.
MathSqrt(a) ==
  IF IsNaN(a) \/ a.num < 0 THEN NaN
  ELSE IF a.den = 0 THEN Infinity
  ELSE IF IsSquare(a.num) /\ IsSquare(a.den) THEN Rat(ISqrt(a.num), ISqrt(a.den))
  ELSE LET whole == a.num \div a.den
           S == IF whole < 4194304 THEN 16 ELSE 1
           m == whole * S * S + ((a.num % a.den) * S * S) \div a.den
           r == ISqrt(m)
       IN Rat(IF r = 0 THEN 1 ELSE r, S)

RECURSIVE SumRange(_, _, _)
SumRange(s, lo, hi) ==
  IF lo > hi THEN Num(0)
  ELSE IF lo = hi THEN s[lo]
  ELSE LET mid == (lo + hi) \div 2
       IN Add(SumRange(s, lo, mid), SumRange(s, mid + 1, hi))

\* s.reduce((a, b) => a + b, 0)
Sum(s) == SumRange(s, 1, Len(s))

RECURSIVE MinRange(_, _, _)
MinRange(s, lo, hi) ==
  IF lo > hi THEN Infinity
  ELSE IF lo = hi THEN s[lo]
  ELSE LET mid == (lo + hi) \div 2
           l == MinRange(s, lo, mid)
           r == MinRange(s, mid + 1, hi)
       IN IF IsNaN(l) \/ IsNaN(r) THEN NaN ELSE IF Lt(r, l) THEN r ELSE l

\* Math.min(...s)
MathMin(s) == MinRange(s, 1, Len(s))

RECURSIVE MaxRange(_, _, _)
MaxRange(s, lo, hi) ==
  IF lo > hi THEN NegInfinity
  ELSE IF lo = hi THEN s[lo]
  ELSE LET mid == (lo + hi) \div 2
           l == MaxRange(s, lo, mid)
           r == MaxRange(s, mid + 1, hi)
       IN IF IsNaN(l) \/ IsNaN(r) THEN NaN ELSE IF Lt(l, r) THEN r ELSE l

\* Math.max(...s)
MathMax(s) == MaxRange(s, 1, Len(s))


(* The numerical core                                                      *)

Variants == {"App", "App_old", "part_000", "part_001"}

\* the value of a destructured property the object does not have
Undefined == [num |-> 0, den |-> -1]

\* xRaw of generateCorrelatedData: z holds the results of the 2n randn()
\* calls in call order (z1, z2 of point 1, z1, z2 of point 2, ...)
RawX(n, z) == [i \in 1..n |-> z[2 * i - 1]] \o <<>>

\* yRaw with the radicand written corr * corr - 1
RawYNegRadicand(corr, n, z) ==
  LET root == MathSqrt(Sub(Mul(corr, corr), Num(1)))
  IN [i \in 1..n |-> Add(Mul(corr, z[2 * i - 1]), Mul(root, z[2 * i]))] \o <<>>

\* yRaw of generateCorrelatedData
RawY(corr, n, z) ==
  LET root == MathSqrt(Sub(Num(1), Mul(corr, corr)))
  IN [i \in 1..n |-> Add(Mul(corr, z[2 * i - 1]), Mul(root, z[2 * i]))] \o <<>>

\* rangeXraw without the "|| 1"
RangeRawUnguarded(raw) == Sub(MathMax(raw), MathMin(raw))

\* rangeXraw / rangeYraw: maxRaw - minRaw || 1
RangeRaw(raw) == OrElse(Sub(MathMax(raw), MathMin(raw)), Num(1))

\* the rescale without the shift by minRaw
RescaleUnshifted(raw, i, minRaw, rangeRaw, xMin, xMax) ==
  Add(xMin, Mul(Div(raw[i], rangeRaw), Sub(xMax, xMin)))

\* one rescaled coordinate: xMin + ((raw[i] - minRaw) / rangeRaw) * (xMax - xMin)
Rescale(raw, i, minRaw, rangeRaw, xMin, xMax) ==
  Add(xMin, Mul(Div(Sub(raw[i], minRaw), rangeRaw), Sub(xMax, xMin)))

generateCorrelatedData(corr, n, xMin, xMax, z) ==
  LET xRaw == RawX(n, z)
      yRaw == RawY(corr, n, z)
      minXraw == MathMin(xRaw)
      rangeXraw == RangeRaw(xRaw)
      minYraw == MathMin(yRaw)
      rangeYraw == RangeRaw(yRaw)
  IN [i \in 1..n |->
        [x |-> Rescale(xRaw, i, minXraw, rangeXraw, xMin, xMax),
         y |-> Rescale(yRaw, i, minYraw, rangeYraw, xMin, xMax)]]

\* a degenerate test that looks at denomX only
DegenerateXOnly(v, denomX, denomY) == IsZero(denomX)

\* the degenerate test of computeCorrelation: denomX === 0 || denomY === 0,
\* written !denomX || !denomY in part_000
Degenerate(v, denomX, denomY) ==
  IF v = "part_000" THEN ~Truthy(denomX) \/ ~Truthy(denomY)
  ELSE IsZero(denomX) \/ IsZero(denomY)

\* a ratio that leaves out the square root
CorrelationRatioNoSqrt(numerator, denomX, denomY) ==
  Div(numerator, Mul(denomX, denomY))

\* numerator / Math.sqrt(denomX * denomY)
CorrelationRatio(numerator, denomX, denomY) ==
  Div(numerator, MathSqrt(Mul(denomX, denomY)))

computeCorrelation(v, xVals, yVals) ==
  LET n == Len(xVals)
  IN IF n <= 1 THEN Num(0)
     ELSE LET meanX == Div(Sum(xVals), Num(n))
              meanY == Div(Sum(yVals), Num(n))
              dx == [i \in 1..n |-> Sub(xVals[i], meanX)]
              dy == [i \in 1..n |-> Sub(yVals[i], meanY)]
              numerator == Sum([i \in 1..n |-> Mul(dx[i], dy[i])])
              denomX == Sum([i \in 1..n |-> Mul(dx[i], dx[i])])
              denomY == Sum([i \in 1..n |-> Mul(dy[i], dy[i])])
          IN IF Degenerate(v, denomX, denomY) THEN Num(0)
             ELSE CorrelationRatio(numerator, denomX, denomY)

\* the object computeRegressionLine returns: App_old and part_000 return
\* meanY with the line, App and part_001 return slope and intercept only
RegressionResult(v, slope, intercept, meanY) ==
  IF v \in {"App_old", "part_000"}
  THEN [slope |-> slope, intercept |-> intercept, meanY |-> meanY]
  ELSE [slope |-> slope, intercept |-> intercept, meanY |-> Undefined]

\* what an empty sample gives when n === 0 does not return early: the
\* means are 0 / 0 and the zero-denominator branch returns them
EmptyResultUnguarded(v) == RegressionResult(v, Num(0), NaN, NaN)

\* if (n === 0) return { slope: 0, intercept: 0 } (with meanY: 0 in App_old
\* and part_000)
EmptyResult(v) == RegressionResult(v, Num(0), Num(0), Num(0))

\* a test that never takes the fallback branch
ZeroVarianceNever(denominator) == FALSE

\* denominator === 0
ZeroVariance(denominator) == IsZero(denominator)

\* a slope that is left as the cross-product sum
SlopeUndivided(numerator, denominator) == numerator

\* a slope with the operands of the division exchanged
SlopeSwapped(numerator, denominator) == Div(denominator, numerator)

\* numerator / denominator
Slope(numerator, denominator) == Div(numerator, denominator)

\* an intercept that leaves out slope * meanX
InterceptAtMeanY(meanY, slope, meanX) == meanY

\* meanY - slope * meanX
Intercept(meanY, slope, meanX) == Sub(meanY, Mul(slope, meanX))

computeRegressionLine(v, data) ==
  LET n == Len(data)
  IN IF n = 0 THEN EmptyResult(v)
     ELSE LET meanX == Div(Sum([i \in 1..n |-> data[i].x]), Num(n))
              meanY == Div(Sum([i \in 1..n |-> data[i].y]), Num(n))
              numerator ==
                Sum([i \in 1..n |-> Mul(Sub(data[i].x, meanX), Sub(data[i].y, meanY))])
              denominator ==
                Sum([i \in 1..n |-> Mul(Sub(data[i].x, meanX), Sub(data[i].x, meanX))])
          IN IF ZeroVariance(denominator) THEN RegressionResult(v, Num(0), meanY, meanY)
             ELSE LET slope == Slope(numerator, denominator)
                      intercept == Intercept(meanY, slope, meanX)
                  IN RegressionResult(v, slope, intercept, meanY)

(* Strings (sequences of one-character strings) and the range inputs       *)

Digits == <<"0", "1", "2", "3", "4", "5", "6", "7", "8", "9">>

IsDigit(c) == \E d \in 1..10 : Digits[d] = c

DigitVal(c) == (CHOOSE d \in 1..10 : Digits[d] = c) - 1

RECURSIVE Pow10(_)
Pow10(k) == IF k = 0 THEN 1 ELSE 10 * Pow10(k - 1)

\* the index after the run of digits of s that starts at i
RECURSIVE DigitsEnd(_, _)
DigitsEnd(s, i) ==
  IF i <= Len(s) /\ IsDigit(s[i]) THEN DigitsEnd(s, i + 1) ELSE i

\* the value of the digits s[lo..hi]
RECURSIVE DigitsValue(_, _, _)
DigitsValue(s, lo, hi) ==
  IF lo > hi THEN 0 ELSE DigitsValue(s, lo, hi - 1) * 10 + DigitVal(s[hi])

\* parseFloat(s) on a decimal literal: optional sign, digits, optional
\* fraction; the longest such prefix is read; NaN when it has no digit
parseFloat(s) ==
  LET signed == Len(s) >= 1 /\ s[1] \in {"-", "+"}
      start == IF signed THEN 2 ELSE 1
      intEnd == DigitsEnd(s, start)
      hasDot == intEnd <= Len(s) /\ s[intEnd] = "."
      fracEnd == IF hasDot THEN DigitsEnd(s, intEnd + 1) ELSE intEnd
      nFrac == IF hasDot THEN fracEnd - intEnd - 1 ELSE 0
      magnitude == Add(Num(DigitsValue(s, start, intEnd - 1)),
                       Rat(DigitsValue(s, intEnd + 1, intEnd + nFrac), Pow10(nFrac)))
  IN IF (intEnd - start) + nFrac = 0 THEN NaN
     ELSE IF signed /\ s[1] = "-" THEN Neg(magnitude) ELSE magnitude

\* parseInt(s, 10): optional sign and the leading run of digits; NaN when
\* there is none
parseInt(s) ==
  LET signed == Len(s) >= 1 /\ s[1] \in {"-", "+"}
      start == IF signed THEN 2 ELSE 1
      intEnd == DigitsEnd(s, start)
      magnitude == Num(DigitsValue(s, start, intEnd - 1))
  IN IF intEnd = start THEN NaN
     ELSE IF signed /\ s[1] = "-" THEN Neg(magnitude) ELSE magnitude

RECURSIVE NatToString(_)
NatToString(k) ==
  IF k < 10 THEN <<Digits[k + 1]>>
  ELSE Append(NatToString(k \div 10), Digits[(k % 10) + 1])

\* the digits of the fraction h / 10^places without trailing zeros
RECURSIVE FractionDigits(_, _)
FractionDigits(h, places) ==
  IF h = 0 \/ places = 0 THEN <<>>
  ELSE IF h % 10 = 0 THEN FractionDigits(h \div 10, places - 1)
  ELSE Append(FractionDigits(h \div 10, places - 1), Digits[(h % 10) + 1])

\* the decimal string of a number that has at most two decimals, as an input
\* element serialises its value ("-1", "0.6", "0.07", "200")
NumberToString(a) ==
  LET hundredths == Abs(a.num) * (100 \div a.den)
      frac == FractionDigits(hundredths % 100, 2)
      body == NatToString(hundredths \div 100)
                \o (IF frac = <<>> THEN <<>> ELSE <<".">> \o frac)
  IN IF a.num < 0 THEN <<"-">> \o body ELSE body

\* <input type="range" min max step>: the value the element holds after the
\* user moves the thumb towards pos.  The element clamps to [min, max] and
\* takes the nearest min + k * step (value sanitization of the range state).
RangeValue(slider, pos) ==
  LET min == parseFloat(slider.min)
      max == parseFloat(slider.max)
      step == parseFloat(slider.step)
      clamped == IF Lt(pos, min) THEN min ELSE IF Lt(max, pos) THEN max ELSE pos
      steps == Add(Div(Sub(clamped, min), step), Rat(1, 2))
      k == steps.num \div steps.den
  IN NumberToString(Add(min, Mul(Num(k), step)))

\* a range input without min, max: the defaults 0 and 100 apply
CorrSliderDefaults == [min |-> <<"0">>, max |-> <<"1", "0", "0">>, step |-> <<"0", ".", "0", "1">>]

\* the correlation slider
CorrSlider == [min |-> <<"-", "1">>, max |-> <<"1">>, step |-> <<"0", ".", "0", "1">>]

\* a range input without min, max: the defaults 0 and 100 apply
SizeSliderDefaults == [min |-> <<"0">>, max |-> <<"1", "0", "0">>, step |-> <<"1">>]

\* the sample-size slider
SizeSlider == [min |-> <<"1", "0">>, max |-> <<"2", "0", "0">>, step |-> <<"1">>]

(* The component CorrelationAndRegressionVisualizer                        *)

VARIABLES
  variant,            \* which variant of the component is mounted
  corr,               \* useState: target correlation
  sampleSize,         \* useState: sample size
  fitLine,            \* useState: DisplayMode (TRUE = Fitted)
  showDistances,      \* useState
  scatterDeps,        \* useMemo: the [corr, sampleSize] scatterData was computed for
  scatterData,        \* useMemo: the sample
  actualCorrelation,  \* useMemo: realized correlation of scatterData
  regression,         \* useMemo: what computeRegressionLine returned
  meanY,              \* the meanY binding of the render
  linePoints,         \* rendered: the two endpoints of the displayed line
  residualLines,      \* computed by the render: one segment per point
  renderedResiduals,  \* rendered: the residual segments handed to the chart
  lastAction,         \* history: the last user action, the thumb position it
                      \* was given and the DisplayMode it started in
  call                \* a call of one of the numeric functions on its own

uiVars == <<variant, corr, sampleSize, fitLine, showDistances, scatterDeps,
            scatterData, actualCorrelation, regression, meanY, linePoints,
            residualLines, renderedResiduals, lastAction>>

vars == <<variant, corr, sampleSize, fitLine, showDistances, scatterDeps,
          scatterData, actualCorrelation, regression, meanY, linePoints,
          residualLines, renderedResiduals, lastAction, call>>

DomainMin == 0

DomainMax == 10

\* useState(200) in App and App_old, useState(30) in part_000 and part_001
InitialSampleSize(v) == IF v \in {"App", "App_old"} THEN 200 ELSE 30

\* the number of iterations of for (let i = 0; i < n; i++)
LoopCount(n) ==
  IF ~IsFinite(n) \/ n.num <= 0 THEN 0 ELSE -((-n.num) \div n.den)

\* the results of the randn() calls of one generateCorrelatedData call are
\* drawn from these patterns, repeated to the length needed
DrawPatterns ==
  { <<Num(-1), Num(0), Num(0), Num(1), Num(1), Num(0), Num(0), Num(-1), Num(1), Num(1)>>,
    <<Num(1), Num(-1), Num(1), Num(1)>> }

Streams(count) ==
  { [i \in 1..(2 * count) |-> p[((i - 1) % Len(p)) + 1]] : p \in DrawPatterns }

\* a useMemo without dependency array: recomputed by every render
MemoNever(deps, newDeps) == FALSE

\* a useMemo whose dependency array is [corr]
MemoCorrOnly(deps, newDeps) == deps[1] = newDeps[1]

\* useMemo reuses its value when every dependency is the same as last time
MemoHit(deps, newDeps) == deps = newDeps

\* the draws a render consumes: none when scatterData is reused
RenderDraws(deps, c, n) ==
  IF MemoHit(deps, <<c, n>>) THEN {<<>>} ELSE Streams(LoopCount(n))

XVals(data) == [i \in 1..Len(data) |-> data[i].x]

YVals(data) == [i \in 1..Len(data) |-> data[i].y]

\* the meanY of the render: its own useMemo in App, a property of the
\* regression result in App_old and part_000, absent in part_001
MeanYOf(v, data, reg) ==
  IF v = "App"
  THEN (IF Len(data) = 0 THEN Num(0) ELSE Div(Sum(YVals(data)), Num(Len(data))))
  ELSE reg.meanY

displayedSlope(fit, reg) == IF fit THEN reg.slope ELSE Num(0)

\* a displayed intercept that ignores fitLine
displayedInterceptFitted(v, fit, reg, mY) == reg.intercept

\* fitLine ? intercept : meanY, and fitLine ? intercept : 0 in part_001
displayedIntercept(v, fit, reg, mY) ==
  IF fit THEN reg.intercept ELSE IF v = "part_001" THEN Num(0) ELSE mY

LinePoints(slope, intercept) ==
  << [x |-> Num(0), y |-> intercept],
     [x |-> Num(10), y |-> Add(Mul(slope, Num(10)), intercept)] >>

\* segments that end on the horizontal line through the intercept
ResidualLinesFlat(data, reg) ==
  [i \in 1..Len(data) |->
     << [x |-> data[i].x, y |-> data[i].y],
        [x |-> data[i].x, y |-> reg.intercept] >>]

ResidualLines(data, reg) ==
  [i \in 1..Len(data) |->
     << [x |-> data[i].x, y |-> data[i].y],
        [x |-> data[i].x, y |-> Add(Mul(reg.slope, data[i].x), reg.intercept)] >>]

\* a render that draws the segments whatever the flags are
RenderedResidualsUnguarded(fit, show, lines) == lines

\* {fitLine && showDistances && residualLines.map(...)}
RenderedResiduals(fit, show, lines) == IF fit /\ show THEN lines ELSE <<>>

\* One render of the component with the new hook state in corr', sampleSize',
\* fitLine', showDistances' and the randn results z.
Render(z) ==
  LET hit == MemoHit(scatterDeps, <<corr', sampleSize'>>)
  IN /\ scatterDeps' = <<corr', sampleSize'>>
     /\ scatterData' =
          IF hit THEN scatterData
          ELSE generateCorrelatedData(corr', LoopCount(sampleSize'),
                                      Num(DomainMin), Num(DomainMax), z)
     /\ actualCorrelation' =
          IF hit THEN actualCorrelation
          ELSE computeCorrelation(variant, XVals(scatterData'), YVals(scatterData'))
     /\ regression' =
          IF hit THEN regression ELSE computeRegressionLine(variant, scatterData')
     /\ meanY' = IF hit THEN meanY ELSE MeanYOf(variant, scatterData', regression')
     /\ linePoints' =
          LinePoints(displayedSlope(fitLine', regression'),
                     displayedIntercept(variant, fitLine', regression', meanY'))
     /\ residualLines' =
          IF hit THEN residualLines ELSE ResidualLines(scatterData', regression')
     /\ renderedResiduals' =
          RenderedResiduals(fitLine', showDistances', residualLines')

\* the hook state as one object, and the batched state updates of a handler
HookState ==
  [corr |-> corr, sampleSize |-> sampleSize, fitLine |-> fitLine,
   showDistances |-> showDistances]

RECURSIVE ApplyUpdates(_, _)
ApplyUpdates(st, updates) ==
  IF updates = <<>> THEN st
  ELSE ApplyUpdates([st EXCEPT ![Head(updates).var] = Head(updates).val],
                    Tail(updates))

\* an onChange of the correlation slider that only calls setCorr
CorrUpdatesOnly(v, value) == << [var |-> "corr", val |-> parseFloat(value)] >>

\* onChange of the correlation slider (part_000 calls setCorr first)
CorrUpdates(v, value) ==
  IF v = "part_000"
  THEN << [var |-> "corr", val |-> parseFloat(value)],
          [var |-> "fitLine", val |-> FALSE],
          [var |-> "showDistances", val |-> FALSE] >>
  ELSE << [var |-> "fitLine", val |-> FALSE],
          [var |-> "showDistances", val |-> FALSE],
          [var |-> "corr", val |-> parseFloat(value)] >>

\* an onChange of the sample-size slider that only calls setSampleSize
SizeUpdatesOnly(v, value) == << [var |-> "sampleSize", val |-> parseInt(value)] >>

\* onChange of the sample-size slider (part_000 calls setSampleSize first)
SizeUpdates(v, value) ==
  IF v = "part_000"
  THEN << [var |-> "sampleSize", val |-> parseInt(value)],
          [var |-> "fitLine", val |-> FALSE],
          [var |-> "showDistances", val |-> FALSE] >>
  ELSE << [var |-> "fitLine", val |-> FALSE],
          [var |-> "showDistances", val |-> FALSE],
          [var |-> "sampleSize", val |-> parseInt(value)] >>

\* an onClick of the fit button that only calls setFitLine
FitUpdatesLineOnly == << [var |-> "fitLine", val |-> TRUE] >>

\* onClick of the fit button
FitUpdates ==
  << [var |-> "fitLine", val |-> TRUE], [var |-> "showDistances", val |-> TRUE] >>

\* React commits the batched updates of one handler, then renders once
Commit(updates) ==
  LET st == ApplyUpdates(HookState, updates)
  IN /\ corr' = st.corr
     /\ sampleSize' = st.sampleSize
     /\ fitLine' = st.fitLine
     /\ showDistances' = st.showDistances
     /\ \E z \in RenderDraws(scatterDeps, st.corr, st.sampleSize) : Render(z)

\* the string an input element holds for value={a}
ValueString(a) == IF IsFinite(a) THEN NumberToString(a) ELSE <<"N", "a", "N">>

\* where the user can move the thumb of the correlation slider to
CorrPositions == {Rat(-3, 2), Rat(151, 250), Num(2)}

\* where the user can move the thumb of the sample-size slider to
SizePositions == {Num(5), Rat(21, 2), Num(250)}

NoCall == [fn |-> "none"]

Mount(v, z) ==
  LET data == generateCorrelatedData(Num(0), InitialSampleSize(v),
                                     Num(DomainMin), Num(DomainMax), z)
      reg == computeRegressionLine(v, data)
      mY == MeanYOf(v, data, reg)
      lines == ResidualLines(data, reg)
  IN /\ variant = v
     /\ corr = Num(0)
     /\ sampleSize = Num(InitialSampleSize(v))
     /\ fitLine = FALSE
     /\ showDistances = FALSE
     /\ scatterDeps = <<Num(0), Num(InitialSampleSize(v))>>
     /\ scatterData = data
     /\ actualCorrelation = computeCorrelation(v, XVals(data), YVals(data))
     /\ regression = reg
     /\ meanY = mY
     /\ linePoints = LinePoints(displayedSlope(FALSE, reg),
                                displayedIntercept(v, FALSE, reg, mY))
     /\ residualLines = lines
     /\ renderedResiduals = RenderedResiduals(FALSE, FALSE, lines)
     /\ lastAction = [op |-> "mount", pos |-> NaN, fitBefore |-> FALSE]

Init ==
  /\ \E v \in Variants : \E z \in Streams(InitialSampleSize(v)) : Mount(v, z)
  /\ call = NoCall

\* the user moves the correlation slider: the element takes the sanitized
\* value and onChange runs when that value differs from the one it held
SetCorrelation(pos) ==
  LET value == RangeValue(CorrSlider, pos)
  IN /\ value # ValueString(corr)
     /\ Commit(CorrUpdates(variant, value))
     /\ lastAction' = [op |-> "setCorrelation", pos |-> pos, fitBefore |-> fitLine]
     /\ UNCHANGED <<variant, call>>

\* the user moves the sample-size slider
SetSampleSize(pos) ==
  LET value == RangeValue(SizeSlider, pos)
  IN /\ value # ValueString(sampleSize)
     /\ Commit(SizeUpdates(variant, value))
     /\ lastAction' = [op |-> "setSampleSize", pos |-> pos, fitBefore |-> fitLine]
     /\ UNCHANGED <<variant, call>>

\* the user clicks "Fit the best-fit regression line"
Fit ==
  /\ Commit(FitUpdates)
  /\ lastAction' = [op |-> "fit", pos |-> NaN, fitBefore |-> fitLine]
  /\ UNCHANGED <<variant, call>>

Next ==
  \/ \E pos \in CorrPositions : SetCorrelation(pos)
  \/ \E pos \in SizePositions : SetSampleSize(pos)
  \/ Fit

Spec == Init /\ [][Next]_vars

(* The numeric functions called on their own                               *)

MaxN == 3

MaxDraw == 1

MaxLen == 3

MaxVal == 2

\* the component before it is mounted
Unmounted ==
  /\ variant = "App"
  /\ corr = Num(0)
  /\ sampleSize = Num(0)
  /\ fitLine = FALSE
  /\ showDistances = FALSE
  /\ scatterDeps = <<>>
  /\ scatterData = <<>>
  /\ actualCorrelation = Num(0)
  /\ regression = RegressionResult("App", Num(0), Num(0), Num(0))
  /\ meanY = Num(0)
  /\ linePoints = <<>>
  /\ residualLines = <<>>
  /\ renderedResiduals = <<>>
  /\ lastAction = [op |-> "none", pos |-> NaN, fitBefore |-> FALSE]

\* what randn() returns in a direct call of generateCorrelatedData
DrawVals == {Num(d) : d \in (-1)..MaxDraw}

\* the arguments <<corr, xMin, xMax>> of a direct call
GenInputs ==
  { <<Num(-1), Num(0), Num(10)>>, <<Rat(-3, 5), Num(-2), Num(3)>>,
    <<Num(0), Num(0), Num(10)>>, <<Rat(4, 5), Num(-2), Num(3)>> }

InitGenerate ==
  /\ Unmounted
  /\ \E a \in GenInputs, n \in 0..MaxN :
       \E z \in [1..(2 * n) -> DrawVals] :
         call = [fn |-> "generate", corr |-> a[1], n |-> n, xMin |-> a[2],
                 xMax |-> a[3], z |-> z, done |-> FALSE, result |-> <<>>]

GenerateCall ==
  /\ call.fn = "generate"
  /\ ~call.done
  /\ call' = [call EXCEPT !.done = TRUE,
                          !.result = generateCorrelatedData(call.corr, call.n,
                                        call.xMin, call.xMax, call.z)]
  /\ UNCHANGED uiVars

SpecGenerate == InitGenerate /\ [][GenerateCall]_vars

StatVals == {Num(d) : d \in 0..MaxVal}

InitCorrelation ==
  /\ Unmounted
  /\ \E v \in Variants, n \in 0..MaxLen :
       \E xs \in [1..n -> StatVals], ys \in [1..n -> StatVals] :
         call = [fn |-> "correlation", v |-> v, xVals |-> xs, yVals |-> ys,
                 done |-> FALSE, result |-> NaN]

CorrelationCall ==
  /\ call.fn = "correlation"
  /\ ~call.done
  /\ call' = [call EXCEPT !.done = TRUE,
                          !.result = computeCorrelation(call.v, call.xVals, call.yVals)]
  /\ UNCHANGED uiVars

SpecCorrelation == InitCorrelation /\ [][CorrelationCall]_vars

\* the points {x, y} of a sample passed to computeRegressionLine
StatPoints == {[x |-> a, y |-> Num(b)] : a \in StatVals, b \in 0..(MaxVal - 1)}

\* coefficients <<a, b>> of lines y = a*x + b that samples are taken from
LineCoefs == {<<Num(2), Num(3)>>, <<Rat(-1, 2), Num(7)>>}

OnLine(xs, ab) ==
  [i \in 1..Len(xs) |-> [x |-> xs[i], y |-> Add(Mul(ab[1], xs[i]), ab[2])]]

RegressSamples(n) ==
  [1..n -> StatPoints]
    \cup {OnLine(xs, ab) : xs \in [1..n -> StatVals], ab \in LineCoefs}

InitRegress ==
  /\ Unmounted
  /\ \E v \in Variants, n \in 0..MaxLen :
       \E data \in RegressSamples(n) :
         call = [fn |-> "regress", v |-> v, data |-> data, done |-> FALSE,
                 result |-> RegressionResult(v, NaN, NaN, NaN), meanY |-> NaN]

\* computeRegressionLine(scatterData) and the meanY the component takes
\* with it
RegressCall ==
  /\ call.fn = "regress"
  /\ ~call.done
  /\ LET reg == computeRegressionLine(call.v, call.data)
     IN call' = [call EXCEPT !.done = TRUE, !.result = reg,
                             !.meanY = MeanYOf(call.v, call.data, reg)]
  /\ UNCHANGED uiVars

SpecRegress == InitRegress /\ [][RegressCall]_vars

\* how many redraws of a zero the model counts (further ones are not counted)
MaxRedraws == 3

\* values of Math.random(), which lies in [0, 1)
UniformVals == {Num(0), Rat(1, 4), Rat(1, 2), Rat(3, 4)}

\* Math.log on UniformVals, to the nearest sixteenth; Math.log(0) = -Infinity
MathLog(a) ==
  IF IsZero(a) THEN NegInfinity
  ELSE IF a = Rat(1, 4) THEN Rat(-22, 16)
  ELSE IF a = Rat(1, 2) THEN Rat(-11, 16)
  ELSE Rat(-5, 16)

\* Math.cos(2.0 * Math.PI * v) on UniformVals, to the nearest sixteenth
MathCosTurn(v) ==
  IF IsZero(v) THEN Num(1)
  ELSE IF v = Rat(1, 2) THEN Num(-1)
  ELSE Num(0)

\* a loop test that never asks for another draw
LoopAgainNever(x) == FALSE

\* the test of while (u === 0) and while (v === 0)
LoopAgain(x) == IsZero(x)

CountRedraw(k, r) == IF IsZero(r) /\ k < MaxRedraws THEN k + 1 ELSE k

\* Math.sqrt(-2.0 * Math.log(u)) * Math.cos(2.0 * Math.PI * v), tabulated
BoxMuller ==
  [u \in UniformVals, v \in UniformVals |->
     Mul(MathSqrt(Mul(Num(-2), MathLog(u))), MathCosTurn(v))]

InitRandn ==
  /\ Unmounted
  /\ call = [fn |-> "randn", pc |-> "u", u |-> Num(0), v |-> Num(0),
             redraws |-> 0, result |-> NaN]

\* while (u === 0) u = Math.random();  one iteration, Math.random() = r
RandnDrawU(r) ==
  /\ call.fn = "randn"
  /\ call.pc = "u"
  /\ LoopAgain(call.u)
  /\ call' = [call EXCEPT !.u = r, !.redraws = CountRedraw(call.redraws, r)]
  /\ UNCHANGED uiVars

RandnExitU ==
  /\ call.fn = "randn"
  /\ call.pc = "u"
  /\ ~LoopAgain(call.u)
  /\ call' = [call EXCEPT !.pc = "v"]
  /\ UNCHANGED uiVars

\* while (v === 0) v = Math.random();  one iteration, Math.random() = r
RandnDrawV(r) ==
  /\ call.fn = "randn"
  /\ call.pc = "v"
  /\ LoopAgain(call.v)
  /\ call' = [call EXCEPT !.v = r, !.redraws = CountRedraw(call.redraws, r)]
  /\ UNCHANGED uiVars

RandnExitV ==
  /\ call.fn = "randn"
  /\ call.pc = "v"
  /\ ~LoopAgain(call.v)
  /\ call' = [call EXCEPT !.pc = "return"]
  /\ UNCHANGED uiVars

\* return Math.sqrt(-2.0 * Math.log(u)) * Math.cos(2.0 * Math.PI * v)
RandnReturn ==
  /\ call.fn = "randn"
  /\ call.pc = "return"
  /\ call' = [call EXCEPT !.pc = "done", !.result = BoxMuller[call.u, call.v]]
  /\ UNCHANGED uiVars

NextRandn ==
  \/ \E r \in UniformVals : RandnDrawU(r)
  \/ RandnExitU
  \/ \E r \in UniformVals : RandnDrawV(r)
  \/ RandnExitV
  \/ RandnReturn

\* randn() runs to its end, and the uniform source does not yield 0 for ever
SpecRandn ==
  /\ InitRandn
  /\ [][NextRandn]_vars
  /\ WF_vars(\E r \in UniformVals \ {Num(0)} : RandnDrawU(r))
  /\ WF_vars(\E r \in UniformVals \ {Num(0)} : RandnDrawV(r))
  /\ WF_vars(RandnExitU)
  /\ WF_vars(RandnExitV)
  /\ WF_vars(RandnReturn)

(* Properties                                                              *)

\* the mean of the y values of a non-empty sample
SampleMeanY(data) == Div(Sum(YVals(data)), Num(Len(data)))

AllSame(vals) == \A i \in 1..Len(vals) : vals[i] = vals[1]

Attains(vals, a) == \E i \in 1..Len(vals) : vals[i] = a

InRange(a, lo, hi) == Le(lo, a) /\ Le(a, hi)

\* the sum of the squared deviations of vals from their mean
SumSqDev(vals) ==
  LET mean == Div(Sum(vals), Num(Len(vals)))
  IN Sum([i \in 1..Len(vals) |-> Mul(Sub(vals[i], mean), Sub(vals[i], mean))])

\* C1: every setCorrelation and every setSampleSize transition ends in
\* DisplayMode = Baseline (fitLine = FALSE), whatever the mode it started in.
C1_ParameterChangeResetsMode ==
  lastAction.op \in {"setCorrelation", "setSampleSize"} => ~fitLine

\* a setSampleSize that started in Fitted mode has ended in Baseline
C1_Witness ==
  /\ lastAction.op = "setSampleSize"
  /\ lastAction.fitBefore
  /\ ~fitLine

\* C2: DisplayMode = Fitted exactly when a fit() has occurred and no
\* setCorrelation / setSampleSize has occurred since the most recent fit(),
\* i.e. exactly when the last user action is a fit(); the mounted component
\* starts in Baseline.
C2_FittedIffLastActionFit == fitLine <=> lastAction.op = "fit"

\* a second fit() in a row: the mode was Fitted before it and is Fitted after
C2_Witness ==
  /\ lastAction.op = "fit"
  /\ lastAction.fitBefore
  /\ fitLine

\* C3 as stated: in every state the rendered line has slope regression.slope
\* and intercept regression.intercept in Fitted mode, and slope 0 and
\* intercept mean(y of the current sample) in Baseline mode.
C3_Original ==
  linePoints =
    LinePoints(IF fitLine THEN regression.slope ELSE Num(0),
               IF fitLine THEN regression.intercept ELSE SampleMeanY(scatterData))

\* C3 (amended): the rendered line is the regression line in Fitted mode; in
\* Baseline mode it is horizontal, at the mean of the current sample's y
\* values in App, App_old and part_000 and at y = 0 in part_001.
C3_DisplayedLineDerived ==
  linePoints =
    LinePoints(IF fitLine THEN regression.slope ELSE Num(0),
               IF fitLine THEN regression.intercept
               ELSE IF variant = "part_001" THEN Num(0)
               ELSE SampleMeanY(scatterData))

\* Baseline after a parameter change in App: a horizontal line at a non-zero
\* mean that differs from the regression intercept
C3_Witness ==
  /\ variant = "App"
  /\ lastAction.op = "setCorrelation"
  /\ ~fitLine
  /\ linePoints[1].y = SampleMeanY(scatterData)
  /\ linePoints[2].y = SampleMeanY(scatterData)
  /\ ~IsZero(linePoints[1].y)
  /\ linePoints[1].y # regression.intercept

\* C4: fit() changes only the display mode: the parameters, the sample, the
\* realized correlation and the regression result are the same after it.
C4_FitChangesOnlyMode ==
  [][lastAction'.op = "fit" =>
       UNCHANGED <<variant, corr, sampleSize, scatterDeps, scatterData,
                   actualCorrelation, regression, meanY, residualLines>>]_vars

\* a fit() has taken a sample with a sloped regression line from Baseline to
\* Fitted
C4_Witness ==
  /\ lastAction.op = "fit"
  /\ ~lastAction.fitBefore
  /\ fitLine
  /\ ~IsZero(regression.slope)

\* C5: in every state the sample, the realized correlation and the
\* regression belong to the current parameters: the sample has sampleSize
\* points and is an output of generateCorrelatedData for the current corr and
\* sampleSize, and the statistics are those of that sample.
C5_DerivedDataCurrent ==
  /\ sampleSize.den = 1
  /\ Len(scatterData) = sampleSize.num
  /\ scatterDeps = <<corr, sampleSize>>
  /\ \E z \in Streams(Len(scatterData)) :
       scatterData = generateCorrelatedData(corr, Len(scatterData),
                                            Num(DomainMin), Num(DomainMax), z)
  /\ actualCorrelation =
       computeCorrelation(variant, XVals(scatterData), YVals(scatterData))
  /\ regression = computeRegressionLine(variant, scatterData)

\* both parameters have been changed away from their defaults, the last
\* change leaving Fitted mode
C5_Witness ==
  /\ lastAction.op = "setSampleSize"
  /\ lastAction.fitBefore
  /\ sampleSize = Num(11)
  /\ corr = Rat(3, 5)
  /\ Len(scatterData) = 11

\* C6: the stored target correlation, and the one the sample was generated
\* for, is in [-1, 1] whatever positions the slider was moved to.
C6_CorrelationInRange ==
  /\ InRange(corr, Num(-1), Num(1))
  /\ InRange(scatterDeps[1], Num(-1), Num(1))

\* the slider was moved beyond 1 and the stored correlation is 1
C6_Witness ==
  /\ lastAction.op = "setCorrelation"
  /\ Lt(Num(1), lastAction.pos)
  /\ corr = Num(1)

\* C7: the stored sample size, and the size of the sample, is an integer in
\* [10, 200] whatever positions the slider was moved to.
C7_SampleSizeInRange ==
  /\ sampleSize.den = 1
  /\ InRange(sampleSize, Num(10), Num(200))
  /\ InRange(scatterDeps[2], Num(10), Num(200))
  /\ Len(scatterData) \in 10..200

\* the slider was moved below 10 and the stored sample size is 10
C7_Witness ==
  /\ lastAction.op = "setSampleSize"
  /\ Lt(lastAction.pos, Num(10))
  /\ sampleSize = Num(10)
  /\ Len(scatterData) = 10

GenerateDone == call.fn = "generate" /\ call.done

\* C8 as stated: for n >= 2 generate returns n points in [xMin, xMax] and
\* each dimension has a point at xMin and a point at xMax.
C8_Original ==
  (GenerateDone /\ call.n >= 2) =>
    /\ Len(call.result) = call.n
    /\ \A i \in 1..Len(call.result) :
         /\ InRange(call.result[i].x, call.xMin, call.xMax)
         /\ InRange(call.result[i].y, call.xMin, call.xMax)
    /\ Attains(XVals(call.result), call.xMin)
    /\ Attains(XVals(call.result), call.xMax)
    /\ Attains(YVals(call.result), call.xMin)
    /\ Attains(YVals(call.result), call.xMax)

\* C8 (amended): for n >= 2 generate returns n points in [xMin, xMax]; a
\* dimension whose raw values are not all identical has a point at xMin and a
\* point at xMax, and a dimension whose raw values are all identical has all
\* its points at xMin.
C8_GenerateCountAndRange ==
  (GenerateDone /\ call.n >= 2) =>
    /\ Len(call.result) = call.n
    /\ \A i \in 1..Len(call.result) :
         /\ InRange(call.result[i].x, call.xMin, call.xMax)
         /\ InRange(call.result[i].y, call.xMin, call.xMax)
    /\ IF AllSame(RawX(call.n, call.z))
       THEN \A i \in 1..Len(call.result) : call.result[i].x = call.xMin
       ELSE /\ Attains(XVals(call.result), call.xMin)
            /\ Attains(XVals(call.result), call.xMax)
    /\ IF AllSame(RawY(call.corr, call.n, call.z))
       THEN \A i \in 1..Len(call.result) : call.result[i].y = call.xMin
       ELSE /\ Attains(YVals(call.result), call.xMin)
            /\ Attains(YVals(call.result), call.xMax)

\* three points, both raw dimensions varied, all four extremes attained
C8_Witness ==
  /\ GenerateDone
  /\ call.n = 3
  /\ call.corr = Rat(4, 5)
  /\ ~AllSame(RawX(call.n, call.z))
  /\ ~AllSame(RawY(call.corr, call.n, call.z))
  /\ Attains(XVals(call.result), call.xMin)
  /\ Attains(XVals(call.result), call.xMax)
  /\ Attains(YVals(call.result), call.xMin)
  /\ Attains(YVals(call.result), call.xMax)

\* C9: when all raw values of a dimension are identical (always so for
\* n = 1) the divisor of that dimension is 1, not 0, and every point has
\* xMin in that dimension.
C9_ZeroRangeDimension ==
  (GenerateDone /\ call.n >= 1) =>
    LET xRaw == RawX(call.n, call.z)
        yRaw == RawY(call.corr, call.n, call.z)
    IN /\ call.n = 1 => (AllSame(xRaw) /\ AllSame(yRaw))
       /\ AllSame(xRaw) =>
            /\ RangeRaw(xRaw) = Num(1)
            /\ \A i \in 1..Len(call.result) : call.result[i].x = call.xMin
       /\ AllSame(yRaw) =>
            /\ RangeRaw(yRaw) = Num(1)
            /\ \A i \in 1..Len(call.result) : call.result[i].y = call.xMin

\* generate(0, 1, 0, 10) has returned the single point (0, 0)
C9_Witness ==
  /\ GenerateDone
  /\ call.n = 1
  /\ call.corr = Num(0)
  /\ call.xMin = Num(0)
  /\ call.xMax = Num(10)
  /\ call.result = << [x |-> Num(0), y |-> Num(0)] >>

CorrelationDone == call.fn = "correlation" /\ call.done

C11_SelfCorrelationIsOne ==
  (CorrelationDone /\ call.xVals = call.yVals /\ Len(call.xVals) >= 2
     /\ ~AllSame(call.xVals))
    => call.result = Num(1)

\* three values with mean 1/3 correlated with themselves give 1
C11_Witness ==
  /\ CorrelationDone
  /\ call.xVals = <<Num(0), Num(0), Num(1)>>
  /\ call.yVals = call.xVals
  /\ call.result = Num(1)

RegressDone == call.fn = "regress" /\ call.done

C13_Original ==
  (RegressDone /\ Len(call.data) = 0)
    => call.result = [slope |-> Num(0), intercept |-> Num(0), meanY |-> Num(0)]

\* C13: for the empty sample, regress returns slope 0 and intercept 0 in
\* every variant; the returned object carries meanY = 0 in App_old and
\* part_000 only, App takes meanY = 0 from its own memo, and part_001 has no
\* meanY.
C13_EmptySampleRegression ==
  (RegressDone /\ Len(call.data) = 0)
    => /\ call.result.slope = Num(0)
       /\ call.result.intercept = Num(0)
       /\ call.v \in {"App_old", "part_000"}
            => (call.result.meanY = Num(0) /\ call.meanY = Num(0))
       /\ call.v = "App"
            => (call.result.meanY = Undefined /\ call.meanY = Num(0))
       /\ call.v = "part_001"
            => (call.result.meanY = Undefined /\ call.meanY = Undefined)

\* App's computeRegressionLine has returned for the empty sample: no meanY
\* in the result, meanY = 0 from the memo
C13_Witness ==
  /\ RegressDone
  /\ call.v = "App"
  /\ call.data = <<>>
  /\ call.result.slope = Num(0)
  /\ call.result.meanY = Undefined
  /\ call.meanY = Num(0)

\* every point of data lies on y = a*x + b
AllOnLine(data, a, b) ==
  \A k \in 1..Len(data) : data[k].y = Add(Mul(a, data[k].x), b)

\* C14: for every sample of at least two points with non-constant x whose
\* points all lie exactly on a line y = a*x + b, regress returns slope = a
\* and intercept = b.
C14_RecoversExactLine ==
  (RegressDone /\ Len(call.data) >= 2 /\ ~AllSame(XVals(call.data)))
    => \A i, j \in 1..Len(call.data) :
         call.data[i].x # call.data[j].x =>
           LET a == Div(Sub(call.data[j].y, call.data[i].y),
                        Sub(call.data[j].x, call.data[i].x))
               b == Sub(call.data[i].y, Mul(a, call.data[i].x))
           IN AllOnLine(call.data, a, b)
                => (call.result.slope = a /\ call.result.intercept = b)

\* the points (0, 3), (1, 5), (2, 7) of y = 2x + 3 give slope 2, intercept 3
C14_Witness ==
  /\ RegressDone
  /\ call.data = OnLine(<<Num(0), Num(1), Num(2)>>, <<Num(2), Num(3)>>)
  /\ call.result.slope = Num(2)
  /\ call.result.intercept = Num(3)

\* the y of the displayed line (the line through linePoints) at x
DisplayedLineAt(x) ==
  Add(Mul(displayedSlope(fitLine, regression), x),
      displayedIntercept(variant, fitLine, regression, meanY))

\* C16: in every reachable state, Baseline or Fitted, there is exactly one
\* residual segment per sample point, in sample order, and segment i runs
\* from (x_i, y_i) to (x_i, slope*x_i + intercept) with the slope and
\* intercept of the regression of the current sample.
C16_ResidualSegmentsFromFittedLine ==
  LET reg == computeRegressionLine(variant, scatterData)
  IN /\ Len(residualLines) = Len(scatterData)
     /\ \A i \in 1..Len(scatterData) :
          /\ Len(residualLines[i]) = 2
          /\ residualLines[i][1] = [x |-> scatterData[i].x, y |-> scatterData[i].y]
          /\ residualLines[i][2] =
               [x |-> scatterData[i].x,
                y |-> Add(Mul(reg.slope, scatterData[i].x), reg.intercept)]

\* a Baseline state after a correlation change whose sample has a sloped
\* regression: a segment ends on the fitted line, off the displayed line
C16_Witness ==
  /\ lastAction.op = "setCorrelation"
  /\ ~fitLine
  /\ Len(scatterData) >= 10
  /\ ~IsZero(regression.slope)
  /\ Len(residualLines) = Len(scatterData)
  /\ \E i \in 1..Len(scatterData) :
       /\ residualLines[i][2].y =
            Add(Mul(regression.slope, scatterData[i].x), regression.intercept)
       /\ residualLines[i][2].y # DisplayedLineAt(scatterData[i].x)

\* C17: residual segments are rendered in a state if and only if
\* DisplayMode = Fitted in that state; in every Baseline state, including the
\* one right after a parameter change that follows a fit(), none is rendered.
C17_ResidualsRenderedIffFitted ==
  /\ fitLine => (renderedResiduals = residualLines /\ Len(renderedResiduals) >= 1)
  /\ ~fitLine => renderedResiduals = <<>>
  /\ (lastAction.op \in {"setCorrelation", "setSampleSize"} /\ lastAction.fitBefore)
       => renderedResiduals = <<>>

\* a correlation change made in Fitted mode: the sample has segments and
\* none of them is rendered
C17_Witness ==
  /\ lastAction.op = "setCorrelation"
  /\ lastAction.fitBefore
  /\ ~fitLine
  /\ Len(residualLines) >= 10
  /\ renderedResiduals = <<>>

\* C20: in every reachable state the two display flags agree,
\* showDistances = fitLine.
C20_DisplayFlagsAgree == showDistances = fitLine

\* a fit made in Baseline mode has set both flags
C20_Witness ==
  /\ lastAction.op = "fit"
  /\ ~lastAction.fitBefore
  /\ fitLine
  /\ showDistances

\* a defined, finite number (neither undefined, NaN nor an infinity)
Plottable(a) == a.den > 0

\* C18: there is no error state: after every sequence of setCorrelation,
\* setSampleSize and fit actions every sample coordinate, the realized
\* correlation, the regression slope and intercept, and both endpoints of
\* the displayed line are defined finite numbers.
C18_EveryStatePlottable ==
  /\ \A i \in 1..Len(scatterData) :
       Plottable(scatterData[i].x) /\ Plottable(scatterData[i].y)
  /\ Plottable(actualCorrelation)
  /\ Plottable(regression.slope)
  /\ Plottable(regression.intercept)
  /\ Len(linePoints) = 2
  /\ \A k \in 1..2 : Plottable(linePoints[k].x) /\ Plottable(linePoints[k].y)

\* a sample whose x draws are all equal and whose correlation was dragged
\* past the end of the slider: the degenerate sample is still plottable
C18_Witness ==
  /\ lastAction.op = "setCorrelation"
  /\ lastAction.pos = Num(2)
  /\ corr = Num(1)
  /\ Len(scatterData) >= 10
  /\ AllSame(XVals(scatterData))
  /\ actualCorrelation = Num(0)
  /\ Plottable(linePoints[2].y)

\* C19: randn never evaluates ln(u) with u = 0 nor uses v = 0: a uniform
\* draw that is exactly 0 is redrawn, and when the uniform source eventually
\* yields a non-zero value both loops terminate and a value is returned.
C19_RandnRedrawsZeroAndReturns ==
  /\ [](call.pc \in {"v", "return", "done"} => ~IsZero(call.u))
  /\ [](call.pc \in {"return", "done"} => ~IsZero(call.v))
  /\ [](call.pc = "done" => Plottable(call.result))
  /\ [][/\ (call.pc = "u" /\ IsZero(call.u)) => call'.pc = "u"
        /\ (call.pc = "v" /\ IsZero(call.v)) => call'.pc = "v"]_vars
  /\ <>(call.pc = "done")

\* randn has returned a number after redrawing at least two zeros
C19_Witness ==
  /\ call.fn = "randn"
  /\ call.pc = "done"
  /\ call.redraws >= 2
  /\ ~IsZero(call.u)
  /\ ~IsZero(call.v)
  /\ Plottable(call.result)

\* the Pearson correlation of the sample passed to computeRegressionLine
SampleCorrelation == computeCorrelation(call.v, XVals(call.data), YVals(call.data))

SampleMeanX(data) == Div(Sum(XVals(data)), Num(Len(data)))

\* C22: for every non-empty sample, in the normal branch and in the
\* zero-x-variance branch, the line returned by regress passes through the
\* centroid of the sample: slope*meanX + intercept = meanY.
C22_LineThroughCentroid ==
  (RegressDone /\ Len(call.data) >= 1)
    => Add(Mul(call.result.slope, SampleMeanX(call.data)), call.result.intercept)
         = SampleMeanY(call.data)

\* the points (0, 0), (1, 1), (2, 1) with centroid (1, 2/3): the normal
\* branch returns slope 1/2 and intercept 1/6
C22_Witness ==
  /\ RegressDone
  /\ XVals(call.data) = <<Num(0), Num(1), Num(2)>>
  /\ YVals(call.data) = <<Num(0), Num(1), Num(1)>>
  /\ ~IsZero(SumSqDev(XVals(call.data)))
  /\ call.result.slope = Rat(1, 2)
  /\ call.result.intercept = Rat(1, 6)

====
